---- MODULE Spec2Model ----
(***************************************************************************)
(* Model of the Vakil Buddy legal chatbot engine (legal_chatbot_engine):   *)
(* config.py, vector_store.py, document_processor.py, rag_pipeline.py and  *)
(* the FastAPI handlers of api.py.                                         *)
(*                                                                         *)
(* Texts are sequences of words.  A Python substring test  "x y" in text   *)
(* is modelled as the occurrence of the word sequence <<"x","y">> as a     *)
(* contiguous run of the text's words; str.lower() maps every word through *)
(* LowerWord.                                                              *)
(*                                                                         *)
(* Spec is the service in one process: its endpoints and the functions     *)
(* they are built from, each call taken as one step.  DocSpec is the       *)
(* document pipeline from process start, under every chunk configuration   *)
(* the environment can give.  RaceSpec is an ingest and a query running in *)
(* two processes on the same index directory.                              *)
(***************************************************************************)
EXTENDS Integers, Sequences, FiniteSets, TLC

VARIABLES
    LLM_PROVIDER,     \* config.py:11, read once at import
    OPENAI_API_KEY,   \* config.py:14, None when the variable is unset
    nlp,              \* rag_pipeline.py:15-19, TRUE when the spaCy model loaded
    chunk_size,       \* config.py:26, the CHUNK_SIZE the process read from its environment
    chunk_overlap,    \* config.py:27, the CHUNK_OVERLAP the process read from its environment
    phase,            \* "import" until the modules are imported, then "serving"
    dirExists,        \* whether CHROMA_DB_DIR exists on disk
    collection,       \* the texts persisted in the Chroma collection, in insertion order
    builds,           \* number of completed create_vector_store calls
    lastBuild,        \* the chunks handed to the most recent create_vector_store call
    prev,             \* the persisted state (dirExists, collection) before the last operation
    ingest_worker,    \* a process inside ingest_documents: its position and locals
    query_worker,     \* a process inside process_query: its position and locals
    args,             \* the arguments of the last operation
    env,              \* what the libraries and the model did during the last operation
    out               \* what the last operation returned or raised

vars ==
    <<LLM_PROVIDER, OPENAI_API_KEY, nlp, chunk_size, chunk_overlap, phase, dirExists,
      collection, builds, lastBuild, prev, ingest_worker, query_worker, args, env, out>>

----------------------------------------------------------------------------
(* Bounds *)

\* Upper bound on the number of successful ingests in one behaviour.
MaxBuilds == 2

----------------------------------------------------------------------------
(* Python values *)

\* Python's None.
None == "<None>"

\* Python truthiness of a string-or-None value:  not x  is true for None and "".
Falsy(x) == x = None \/ x = ""

RECURSIVE Concat(_)
\* list.extend over a sequence of lists / " ".join of word sequences.
Concat(seqs) == IF seqs = <<>> THEN <<>> ELSE Head(seqs) \o Concat(Tail(seqs))

\* str.lower() on one word.
LowerWord(w) ==
    CASE w = "Simulated"  -> "simulated"
      [] w = "Summarize"  -> "summarize"
      [] w = "Extract"    -> "extract"
      [] w = "Entities"   -> "entities"
      [] w = "Compare"    -> "compare"
      [] w = "Documents"  -> "documents"
      [] w = "Purpose"    -> "purpose"
      [] w = "Code"       -> "code"
      [] w = "Civil"      -> "civil"
      [] w = "Criminal"   -> "criminal"
      [] w = "Procedure"  -> "procedure"
      [] w = "LLM"        -> "llm"
      [] w = "DummyLLM."  -> "dummyllm."
      [] OTHER            -> w

\* str.lower()
Lower(text) == [i \in DOMAIN text |-> LowerWord(text[i])]

\* phrase in text
In(phrase, text) ==
    \E i \in 1..(Len(text) - Len(phrase) + 1) :
        SubSeq(text, i, i + Len(phrase) - 1) = phrase

\* What a function call produced: the exception it raised ("none" when it
\* returned), the Python type of the value returned, and the value's content.
Ret(fn) ==
    [fn |-> fn, exc |-> "none", err |-> "", type |-> "none", message |-> <<>>,
     text |-> <<>>, sources |-> <<>>, entities |-> <<>>, citations |-> {},
     llm |-> "none", calls |-> 0]

\* fn raised exc with message err, after `calls` calls of the model
Raise(fn, exc, err, llm, calls) ==
    [Ret(fn) EXCEPT !.exc = exc, !.err = err, !.llm = llm, !.calls = calls]

----------------------------------------------------------------------------
(* rag_pipeline.py: DummyLLM and get_llm *)

DummyCivil ==
    <<"The", "Code", "of", "Civil", "Procedure,", "1908", "is", "a", "procedural", "law",
      "related", "to", "the", "administration", "of", "civil", "proceedings", "in", "India.">>
DummyCriminal ==
    <<"The", "Code", "of", "Criminal", "Procedure,", "1973", "is", "the", "main",
      "legislation", "on", "procedure", "for", "administration", "of", "criminal", "law",
      "in", "India.">>
DummySummary ==
    <<"This", "is", "a", "summary", "of", "the", "provided", "legal", "text,", "focusing",
      "on", "key", "procedural", "aspects", "and", "definitions.">>
DummyEntities ==
    <<"{case_name:", "Simulated", "Case,", "parties:", "[Party", "A,", "Party", "B],",
      "date:", "2023-01-01,", "sections_cited:", "[Section", "1,", "Section", "2]}">>
DummyComparison ==
    <<"Simulated", "comparison:", "Documents", "are", "broadly", "similar", "but", "have",
      "minor", "differences", "in", "phrasing.">>
DummyDefault ==
    <<"I", "am", "a", "dummy", "LLM", "and", "cannot", "answer", "complex", "legal",
      "queries", "without", "a", "real", "model.", "Please", "provide", "a", "real", "LLM",
      "integration.">>

\* DummyLLM.__call__(prompt)
DummyLLM_call(prompt) ==
    IF In(<<"Code", "of", "Civil", "Procedure">>, prompt) /\ In(<<"purpose">>, prompt)
    THEN DummyCivil
    ELSE IF In(<<"Code", "of", "Criminal", "Procedure">>, prompt) /\ In(<<"purpose">>, prompt)
    THEN DummyCriminal
    ELSE IF In(<<"summarize">>, Lower(prompt)) THEN DummySummary
    ELSE IF In(<<"extract", "entities">>, Lower(prompt)) THEN DummyEntities
    ELSE IF In(<<"compare", "documents">>, Lower(prompt)) THEN DummyComparison
    ELSE DummyDefault

MissingKeyError == "OPENAI_API_KEY is not set in environment variables or config.py"

\* A successfully constructed provider handle of the given class.
Provider(kind) == [exc |-> "none", err |-> "", kind |-> kind]
\* An exception raised instead of a return value.
Raised(exc, err) == [exc |-> exc, err |-> err, kind |-> "none"]

\* get_llm with an else branch that accepts only the documented name "dummy"
\* and raises for every other provider name.
get_llm_strict(provider, key) ==
    IF provider = "openai"
    THEN IF Falsy(key) THEN Raised("ValueError", MissingKeyError)
         ELSE Provider("ChatOpenAI")
    ELSE IF provider = "ollama" THEN Provider("Ollama")
    ELSE IF provider = "dummy" THEN Provider("DummyLLM")
    ELSE Raised("ValueError", "Unknown LLM_PROVIDER")

\* get_llm falling back to the DummyLLM when the hosted credential is missing.
get_llm_fallback(provider, key) ==
    IF provider = "openai" /\ ~Falsy(key) THEN Provider("ChatOpenAI")
    ELSE IF provider = "ollama" THEN Provider("Ollama")
    ELSE Provider("DummyLLM")

\* get_llm() under the configuration (provider, key)
get_llm(provider, key) ==
    IF provider = "openai"
    THEN IF Falsy(key) THEN Raised("ValueError", MissingKeyError)
         ELSE Provider("ChatOpenAI")
    ELSE IF provider = "ollama" THEN Provider("Ollama")
    ELSE Provider("DummyLLM")

\* An isinstance check that never recognises the DummyLLM.
IsDummy_never(llm) == FALSE

\* isinstance(llm, DummyLLM)
IsDummy(llm) == llm.kind = "DummyLLM"

----------------------------------------------------------------------------
(* document_processor.py *)

\* A raw text is a sequence of tokens: words and runs of whitespace.
Whitespace == {" ", "  ", "\n", "\n\n", "\n  "}

\* The documents on disk: extract_text_from_pdf(pdf_path) for each existing file.
\* "blank.pdf" holds only whitespace, "scan.pdf" yields no text at all.
ExistingPaths == {"a.pdf", "b.pdf", "blank.pdf", "scan.pdf"}
Paths == ExistingPaths \cup {"missing.pdf"}

\* os.path.exists(pdf_path)
path_exists(path) == path \in ExistingPaths

\* extract_text_from_pdf(pdf_path): the text of the pages, "" when extraction fails
extract_text_from_pdf(path) ==
    CASE path = "a.pdf" ->
           <<"\n  ", "Code", " ", "of", " ", "Civil", " ", "Procedure", "\n", "governs",
             "  ", "civil", " ", "suits.", "\n\n", "Code", " ", "of", " ", "Criminal",
             " ", "Procedure", "\n", "governs", " ", "crime.", "\n">>
      [] path = "b.pdf" ->
           <<"Sharma", " ", "leased", "  ", "land", " ", "in", " ", "Delhi", "\n">>
      [] path = "uploaded_temp_files/upload.pdf" ->
           <<"Crown", " ", "summons", " ", "of", " ", "1908", "\n">>
      [] path = "blank.pdf" -> <<"\n", "  ">>
      [] OTHER -> <<>>

RECURSIVE CollapseWs(_)
\* re.sub(r'\s+', ' ', text): every run of whitespace becomes one space
CollapseWs(text) ==
    IF text = <<>> THEN <<>>
    ELSE IF Head(text) \in Whitespace
         THEN LET rest == CollapseWs(Tail(text))
              IN  IF rest # <<>> /\ Head(rest) = " " THEN rest ELSE <<" ">> \o rest
         ELSE <<Head(text)>> \o CollapseWs(Tail(text))

\* str.strip() of a text whose whitespace runs are already single tokens
Strip(text) ==
    LET a == IF text # <<>> /\ Head(text) \in Whitespace THEN Tail(text) ELSE text
    IN  IF a # <<>> /\ a[Len(a)] \in Whitespace THEN SubSeq(a, 1, Len(a) - 1) ELSE a

\* clean_text(text)
clean_text(text) == Strip(CollapseWs(text))

\* CHUNK_SIZE and CHUNK_OVERLAP (config.py:26-27), in characters.  Both are read
\* from the environment; the service is modelled with a small chunk size so
\* that a document of a few words is split into more than one chunk.
CHUNK_SIZE == 40
CHUNK_OVERLAP == 10

\* len(" ".join(words)) for a non-empty list of words
RECURSIVE JoinedLen(_)
JoinedLen(words) ==
    IF words = <<>> THEN 0
    ELSE Len(Head(words)) + (IF Len(words) > 1 THEN 1 ELSE 0) + JoinedLen(Tail(words))

RECURSIVE DropForOverlap(_, _, _, _)
\* RecursiveCharacterTextSplitter._merge_splits, the inner while loop: pop words
\* from the front of the current chunk while it is longer than the overlap, or
\* while the next word still does not fit
DropForOverlap(current, nextLen, size, overlap) ==
    LET total == JoinedLen(current)
    IN  IF total > overlap
           \/ (total + nextLen + (IF Len(current) > 0 THEN 1 ELSE 0) > size /\ total > 0)
        THEN DropForOverlap(Tail(current), nextLen, size, overlap)
        ELSE current

RECURSIVE MergeSplits_flush(_, _, _, _)
\* A merge that closes the current chunk before every word.
MergeSplits_flush(words, current, size, overlap) ==
    IF words = <<>>
    THEN IF current = <<>> THEN <<>> ELSE <<current>>
    ELSE IF Len(current) > 0
         THEN <<current>> \o MergeSplits_flush(Tail(words), <<Head(words)>>, size, overlap)
         ELSE MergeSplits_flush(Tail(words), <<Head(words)>>, size, overlap)

RECURSIVE MergeSplits(_, _, _, _)
\* RecursiveCharacterTextSplitter._merge_splits with separator " ": the chunks
\* made of the words still to come, given the words of the chunk being filled.
\* Lengths are those of the words joined by single spaces.
MergeSplits(words, current, size, overlap) ==
    IF words = <<>>
    THEN IF current = <<>> THEN <<>> ELSE <<current>>
    ELSE LET d == Head(words)
             total == JoinedLen(current)
         IN  IF total + Len(d) + (IF Len(current) > 0 THEN 1 ELSE 0) > size
                /\ Len(current) > 0
             THEN <<current>>
                  \o MergeSplits(Tail(words),
                                 Append(DropForOverlap(current, Len(d), size, overlap), d),
                                 size, overlap)
             ELSE MergeSplits(Tail(words), Append(current, d), size, overlap)

\* The constructor of the splitter (TextSplitter.__init__) refuses an overlap
\* larger than the chunk size; an overlap equal to the chunk size is accepted.
SplitterRefuses(size, overlap) == overlap > size
SplitterError == "Got a larger chunk overlap than chunk size, should be smaller."

\* chunk_text(text) when config.py read (size, overlap): construct the splitter,
\* then split the cleaned text on " " and merge the words into chunks of at
\* most `size` characters; a chunk is kept as its sequence of words
chunk_text_with(text, size, overlap) ==
    IF SplitterRefuses(size, overlap)
    THEN Raise("chunk_text", "ValueError", SplitterError, "none", 0)
    ELSE [Ret("chunk_text") EXCEPT
              !.type = "list",
              !.sources = MergeSplits(SelectSeq(text, LAMBDA t : t # " "), <<>>, size, overlap)]

\* process_document(pdf_path) from the text extract_text_from_pdf returned
\* (document_processor.py:69-76), when config.py read (size, overlap)
process_text_with(raw_text, size, overlap) ==
    IF raw_text = <<>> THEN [Ret("process_document") EXCEPT !.type = "list"]
    ELSE [chunk_text_with(clean_text(raw_text), size, overlap) EXCEPT !.fn = "process_document"]

\* chunk_text(text) of the service
chunk_text(text) == chunk_text_with(text, CHUNK_SIZE, CHUNK_OVERLAP).sources

\* process_document(pdf_path) of the service
process_document(path) ==
    process_text_with(extract_text_from_pdf(path), CHUNK_SIZE, CHUNK_OVERLAP).sources

\* process_document over every path a request can name, computed once.
AllPaths ==
    Paths \cup {"uploaded_temp_files/upload.pdf", "uploaded_temp_files/empty.pdf"}
Processed == [p \in AllPaths |-> process_document(p)]

----------------------------------------------------------------------------
(* vector_store.py *)

\* The persisted state of CHROMA_DB_DIR: whether the directory exists, and the
\* texts of the collection stored in it.
Persisted(dir, coll) == [dir |-> dir, coll |-> coll]

\* create_vector_store(chunks) on the persisted state (dir, coll).
\* os.makedirs(CHROMA_DB_DIR, exist_ok=True) creates the directory when it is
\* missing and removes nothing; Chroma.from_texts(persist_directory=CHROMA_DB_DIR)
\* opens the collection of that directory (get-or-create) and adds the texts to
\* it.  Nothing in the function deletes what the directory already holds.
create_vector_store(chunks, dir, coll) == Persisted(TRUE, coll \o chunks)

\* A load that opens another, empty collection of the directory.
load_vector_store_other(dir, coll) ==
    IF ~dir THEN [kind |-> "None", docs |-> <<>>]
    ELSE [kind |-> "Chroma", docs |-> <<>>]

\* A load that keeps the handle it built in the operation before and gives it
\* back: a handle over the collection as that operation found it.
load_vector_store_cached(dir, coll) ==
    IF ~dir THEN [kind |-> "None", docs |-> <<>>]
    ELSE [kind |-> "Chroma", docs |-> prev.coll]

\* load_vector_store() on the persisted state (dir, coll): None when the
\* directory does not exist, else a Chroma handle over the stored collection
load_vector_store(dir, coll) ==
    IF ~dir THEN [kind |-> "None", docs |-> <<>>]
    ELSE [kind |-> "Chroma", docs |-> coll]

\* The similarity of two texts under the embedding model.  A text is embedded
\* as the set of its lower-cased words; two texts are the closer the fewer
\* words one has and the other lacks, and a text is at distance 0 from itself.
Score(q, p) ==
    LET a == {LowerWord(q[i]) : i \in DOMAIN q}
        b == {LowerWord(p[i]) : i \in DOMAIN p}
    IN  0 - Cardinality((a \ b) \cup (b \ a))

RECURSIVE TopK(_, _, _, _)
\* The k best of the documents docs[i], i in S, given their scores: highest
\* score first, ties in insertion order
TopK(docs, score, S, k) ==
    IF k = 0 \/ S = {} THEN <<>>
    ELSE LET b == CHOOSE i \in S : \A j \in S :
                      score[i] > score[j] \/ (score[i] = score[j] /\ i <= j)
         IN  <<docs[b]>> \o TopK(docs, score, S \ {b}, k - 1)

\* The questions put to the service.
Questions ==
    { <<"What", "is", "the", "purpose", "of", "the", "Code", "of", "Civil", "Procedure", "?">>,
      <<"Who", "leased", "land", "in", "Delhi", "?">> }

\* The passages the documents can put into the store.
Passages == UNION {{Processed[p][i] : i \in DOMAIN Processed[p]} : p \in AllPaths}

\* Score for the questions and passages of the model, computed once.
Scores == [q \in Questions \cup Passages |-> [p \in Passages |-> Score(q, p)]]

\* db.similarity_search(query, k)
similarity_search(db, query, k) ==
    TopK(db.docs, [i \in DOMAIN db.docs |-> Scores[query][db.docs[i]]], DOMAIN db.docs, k)

\* vector_store.as_retriever() applied to a query: similarity search with the
\* retriever's default k = 4
Retrieve(db, q) == similarity_search(db, q, 4)

----------------------------------------------------------------------------
(* rag_pipeline.py: the operations *)

\* The answers of a hosted or local model.
RealAnswer == <<"The", "answer", "grounded", "in", "the", "context.">>
RealSummary == <<"The", "document", "concerns", "procedure.">>
RealComparison == <<"Clause", "2", "differs.">>

TransportError == "Connection refused"
ChainValidationError == "validation error for LLMChain: llm"

PromptHead ==
    <<"Use", "the", "following", "pieces", "of", "context", "to", "answer", "the",
      "question", "at", "the", "end.", "If", "you", "don't", "know", "the", "answer,",
      "just", "say", "that", "you", "don't", "know,", "don't", "try", "to", "make", "up",
      "an", "answer.", "Keep", "the", "answer", "as", "concise", "as", "possible.">>

\* PROMPT.format(context=..., question=...) of setup_rag_pipeline
QaPrompt(docs, question) ==
    PromptHead \o Concat(docs) \o <<"Question:">> \o question \o <<"Concise", "Answer:">>

SetupFailed == <<"Error:", "RAG", "pipeline", "could", "not", "be", "set", "up.">>

\* query_rag_pipeline(query) on the persisted state (dir, coll).
\* chainOK: whether RetrievalQA.from_chain_type accepts a DummyLLM as its llm;
\* llmOK: whether the hosted / local model answers the call.
query_rag_pipeline(query, dir, coll, provider, key, chainOK, llmOK) ==
    LET fn == "query_rag_pipeline"
        vector_store == load_vector_store(dir, coll)
        llm == get_llm(provider, key)
        docs == Retrieve(vector_store, query)
        prompt == QaPrompt(docs, query)
    IN  IF vector_store.kind = "None"
        THEN [Ret(fn) EXCEPT !.type = "str", !.text = SetupFailed]
        ELSE IF llm.exc # "none" THEN Raise(fn, llm.exc, llm.err, "none", 0)
        ELSE IF IsDummy(llm)
        THEN IF ~chainOK THEN Raise(fn, "ValidationError", ChainValidationError, llm.kind, 0)
             ELSE [Ret(fn) EXCEPT !.type = "dict", !.text = DummyLLM_call(prompt),
                                  !.sources = docs, !.llm = llm.kind, !.calls = 1]
        ELSE IF ~llmOK THEN Raise(fn, "ConnectionError", TransportError, llm.kind, 1)
        ELSE [Ret(fn) EXCEPT !.type = "dict", !.text = RealAnswer,
                             !.sources = docs, !.llm = llm.kind, !.calls = 1]

SimulatedSummary ==
    <<"This", "is", "a", "simulated", "summary", "from", "the", "DummyLLM.", "Please",
      "integrate", "a", "real", "LLM", "for", "actual", "summarization.">>

\* summarize_document_chunks(chunks): map_reduce calls the model once per chunk
\* and once more to combine; the first failing call ends the chain
summarize_document_chunks(chunks, provider, key, llmOK) ==
    LET fn == "summarize_document_chunks"
        llm == get_llm(provider, key)
    IN  IF llm.exc # "none" THEN Raise(fn, llm.exc, llm.err, "none", 0)
        ELSE IF IsDummy(llm)
        THEN [Ret(fn) EXCEPT !.type = "str", !.text = SimulatedSummary, !.llm = llm.kind]
        ELSE IF ~llmOK THEN Raise(fn, "ConnectionError", TransportError, llm.kind, 1)
        ELSE [Ret(fn) EXCEPT !.type = "str", !.text = RealSummary, !.llm = llm.kind,
                             !.calls = Len(chunks) + 1]

\* dict.update: the keys of d2 replace those of d1
Update(d1, d2) ==
    [k \in (DOMAIN d1) \cup (DOMAIN d2) |-> IF k \in DOMAIN d2 THEN d2[k] ELSE d1[k]]

\* The entities the spaCy model labels, by label.
SpacyLabel(w) ==
    CASE w \in {"Sharma"} -> "PERSON"
      [] w \in {"Crown"}  -> "ORG"
      [] w \in {"1908"}   -> "DATE"
      [] w \in {"Delhi"}  -> "GPE"
      [] OTHER            -> "O"

\* [ent.text for ent in doc.ents if ent.label_ == label]
Ents(text, label) == SelectSeq(text, LAMBDA w : SpacyLabel(w) = label)

SimulatedEntities ==
    <<"Simulated", "entity", "extraction.", "Integrate", "a", "real", "LLM", "for",
      "actual", "extraction.">>
ExtractedEntities == <<"Extracted", "entities.">>
SpacyNotLoaded ==
    <<"SpaCy", "model", "not", "loaded.", "Falling", "back", "to", "LLM-only",
      "extraction", "if", "configured.">>

\* The objects the schema-guided model extracts from a text.  An object is the
\* list of its (key, value) pairs in the order the model wrote them; the first
\* has the two required properties only, the second also a "persons" property.
CaseObject ==
    << <<"case_name", <<"Sharma", "v.", "Crown">> >>, <<"parties", <<"Sharma", "Crown">> >> >>
LeaseObject ==
    << <<"case_name", <<"In", "re", "lease">> >>, <<"parties", <<>> >>,
       <<"persons", <<"Rao">> >> >>

\* What chain.run(text) of create_extraction_chain(schema, llm) can return: the
\* chain's output parser gives the list of the objects extracted (the "info"
\* array of the function call), which may be empty.
LlmExtractions == { <<>>, <<CaseObject>>, <<LeaseObject>> }

UpdateSequenceError == "dictionary update sequence element #0 has length 3; 2 is required"

RECURSIVE UpdateFromSeq(_, _)
\* dict.update(items) for a list: every element must be a sequence of length 2,
\* taken as (key, value); iterating an element that is a dict gives its keys,
\* so a dict of two keys k1, k2 sets d[k1] = k2.  An element of another length
\* raises ValueError, the earlier elements being applied already.
UpdateFromSeq(d, items) ==
    IF items = <<>> THEN [ok |-> TRUE, dict |-> d]
    ELSE LET e == Head(items)
         IN  IF Len(e) # 2 THEN [ok |-> FALSE, dict |-> d]
             ELSE UpdateFromSeq(Update(d, (e[1][1] :> <<e[2][1]>>)), Tail(items))

\* extract_entities_from_text(text).
\* nlpLoaded: the module-level nlp is not None; llmOK: chain.run succeeds and
\* returns llmData
extract_entities_from_text(text, provider, key, nlpLoaded, llmOK, llmData) ==
    LET fn == "extract_entities_from_text"
        llm == get_llm(provider, key)
        spacy_data == [persons       |-> Ents(text, "PERSON"),
                       organizations |-> Ents(text, "ORG"),
                       dates         |-> Ents(text, "DATE"),
                       gpes          |-> Ents(text, "GPE")]
        extracted_data == IF nlpLoaded THEN spacy_data ELSE [message |-> SpacyNotLoaded]
        updated == UpdateFromSeq(extracted_data, llmData)
        merged == IF ~llmOK
                  THEN Update(extracted_data, [llm_extraction_error |-> TransportError])
                  ELSE IF updated.ok THEN updated.dict
                  ELSE Update(updated.dict, [llm_extraction_error |-> UpdateSequenceError])
    IN  IF llm.exc # "none" THEN Raise(fn, llm.exc, llm.err, "none", 0)
        ELSE IF IsDummy(llm)
        THEN [Ret(fn) EXCEPT !.type = "dict", !.message = SimulatedEntities, !.llm = llm.kind]
        ELSE [Ret(fn) EXCEPT !.type = "dict", !.message = ExtractedEntities,
                             !.entities = merged, !.llm = llm.kind, !.calls = 1]

SimulatedComparison ==
    <<"Simulated", "document", "comparison.", "Integrate", "a", "real", "LLM", "for",
      "actual", "comparison.">>
DifferencesPlaceholder == <<"Differences", "would", "be", "highlighted", "here.">>
ComparisonCompleted == <<"Document", "comparison", "completed.">>
ComparisonError == <<"Error", "during", "document", "comparison:", TransportError>>

\* compare_documents(doc1_chunks, doc2_chunks): a failing model call is caught
\* and returned as a message
compare_documents(doc1_chunks, doc2_chunks, provider, key, llmOK) ==
    LET fn == "compare_documents"
        llm == get_llm(provider, key)
    IN  IF llm.exc # "none" THEN Raise(fn, llm.exc, llm.err, "none", 0)
        ELSE IF IsDummy(llm)
        THEN [Ret(fn) EXCEPT !.type = "dict", !.message = SimulatedComparison,
                             !.text = DifferencesPlaceholder, !.llm = llm.kind]
        ELSE IF llmOK
        THEN [Ret(fn) EXCEPT !.type = "dict", !.message = ComparisonCompleted,
                             !.text = RealComparison, !.llm = llm.kind, !.calls = 1]
        ELSE [Ret(fn) EXCEPT !.type = "dict", !.message = ComparisonError,
                             !.llm = llm.kind, !.calls = 1]

\* The names rag_pipeline.py binds with its import statements
\* (rag_pipeline.py:1-11); the module has no  import re.
RagImports ==
    {"spacy", "RetrievalQA", "create_extraction_chain", "load_summarize_chain",
     "ChatOpenAI", "Ollama", "PromptTemplate", "Document", "load_vector_store", "os",
     "List", "Dict", "Any", "LLM_PROVIDER", "OPENAI_API_KEY", "OPENAI_MODEL_NAME",
     "OPENAI_TEMPERATURE", "OLLAMA_MODEL_NAME", "OLLAMA_BASE_URL"}

\* The words the citation patterns tell apart (re.IGNORECASE).
CitationKeywords ==
    {"Section", "section", "SECTION", "Article", "article", "Rule", "rule", "Order", "order"}
\* \d+(?:[A-Za-z])?
SectionNumbers == {"1", "21", "302", "10A", "1860", "1908"}
\* (?:Act|Code|Constitution|Rules|Regulation),?
ActWords == {"Act", "Act,", "Code", "Code,", "Constitution", "Constitution,", "Rules", "Rules,"}
\* \d{4}
Years == {"1860", "1908", "1973", "2023"}
\* [a-zA-Z]+
NameWords == {"of", "the", "Indian", "Penal", "Civil", "Criminal", "Procedure", "Evidence"}

\* The last word of the match of section_pattern that starts at word i of the
\* text, 0 when the pattern does not match there.  The keyword, the number and
\* the whitespace after it are required; "of the " and the name of the act
\* with its year are optional and matched greedily.
SectionMatchEnd(text, i) ==
    LET n == Len(text)
        afterOf == IF i + 4 <= n /\ text[i + 2] = "of" /\ text[i + 3] = "the"
                   THEN i + 4 ELSE i + 2
        acts == {j \in afterOf + 1 .. n - 1 :
                    /\ text[j] \in ActWords
                    /\ text[j + 1] \in Years
                    /\ \A m \in afterOf .. j - 1 : text[m] \in NameWords \cup ActWords}
    IN  IF i + 2 <= n /\ text[i] \in CitationKeywords /\ text[i + 1] \in SectionNumbers
        THEN IF acts # {} THEN (CHOOSE j \in acts : \A m \in acts : m <= j) + 1
             ELSE afterOf - 1
        ELSE 0

RECURSIVE FindAllSections(_, _)
\* re.findall(section_pattern, text, re.IGNORECASE): the non-overlapping
\* matches from word i on, left to right
FindAllSections(text, i) ==
    IF i > Len(text) THEN <<>>
    ELSE LET e == SectionMatchEnd(text, i)
         IN  IF e = 0 THEN FindAllSections(text, i + 1)
             ELSE <<SubSeq(text, i, e)>> \o FindAllSections(text, e + 1)

\* extract_citations_from_text(text): raises NameError at its first use of re
\* (rag_pipeline.py:238) because the module never imports it; otherwise the
\* set of the matches, each with its whitespace normalised.  A match is kept as
\* its sequence of words, which is its text with single spaces.
extract_citations_from_text(text) ==
    LET fn == "extract_citations_from_text"
    IN  IF "re" \notin RagImports
        THEN Raise(fn, "NameError", "name 're' is not defined", "none", 0)
        ELSE LET citations == FindAllSections(text, 1)
             IN  [Ret(fn) EXCEPT !.type = "list",
                                 !.citations = {citations[i] : i \in DOMAIN citations}]

----------------------------------------------------------------------------
(* api.py: the request handlers *)

\* What the last operation gave its caller.  For an endpoint: the HTTP status,
\* the detail prefix of an error response, the reason it carries (str(e)), and
\* the outcome of the rag_pipeline function the handler called (fn = "none"
\* when it called none).  For a direct call of a function: api = "none",
\* status = 0 and the function's outcome.
Http(api, status, detail, cause, ret) ==
    [api |-> api, status |-> status, detail |-> detail, cause |-> cause, ret |-> ret]
Direct(ret) == Http("none", 0, "", "", ret)

\* The names api.py binds with its import statements (api.py:4-6).
ApiImports ==
    {"query_rag_pipeline", "summarize_document_chunks", "process_document",
     "create_vector_store", "load_vector_store"}

\* Python raises NameError when a handler calls a name the module never bound.
Unbound(name) == name \notin ApiImports
NameErrorOf(name) ==
    CASE name = "extract_entities_from_text" -> "name 'extract_entities_from_text' is not defined"
      [] name = "compare_documents"          -> "name 'compare_documents' is not defined"
      [] name = "extract_citations_from_text"
                                             -> "name 'extract_citations_from_text' is not defined"
      [] OTHER                               -> "name is not defined"

\* process_query(request): POST /process-query
process_query(question, dir, coll, provider, key, chainOK, llmOK) ==
    LET api == "process_query"
        response == query_rag_pipeline(question, dir, coll, provider, key, chainOK, llmOK)
    IN  IF response.exc # "none"
        THEN Http(api, 500, "An error occurred", response.err, response)
        ELSE IF response.type = "str"
        THEN Http(api, 500, "An error occurred", "'str' object has no attribute 'get'", response)
        ELSE Http(api, 200, "", "", response)

\* The empty-ingest guard left out.
NoChunks_unchecked(all_chunks) == FALSE

\* if not all_chunks (api.py:113)
NoChunks(all_chunks) == all_chunks = <<>>

\* An ingest that stores the passages of each file as soon as the file is
\* processed, so that the files before a missing path are already written.
ingest_documents_eager(pdf_paths, dir, coll) ==
    LET api == "ingest_documents"
        missing == {i \in DOMAIN pdf_paths : ~path_exists(pdf_paths[i])}
        first == CHOOSE i \in missing : \A j \in missing : i <= j
        before == Concat([i \in 1..(first - 1) |-> Processed[pdf_paths[i]]])
        all_chunks == Concat([i \in DOMAIN pdf_paths |-> Processed[pdf_paths[i]]])
    IN  IF missing # {}
        THEN [resp |-> Http(api, 404, "File not found", pdf_paths[first], Ret("none")),
              store |-> IF before = <<>> THEN Persisted(dir, coll)
                        ELSE create_vector_store(before, dir, coll)]
        ELSE IF NoChunks(all_chunks)
        THEN [resp |-> Http(api, 400, "No text extracted from provided documents.", "",
                            Ret("none")),
              store |-> Persisted(dir, coll)]
        ELSE [resp |-> Http(api, 200, "Successfully ingested documents and updated vector store.",
                            "", Ret("create_vector_store")),
              store |-> create_vector_store(all_chunks, dir, coll)]

\* ingest_documents(request): POST /ingest-documents.  Gives the response and
\* the persisted state it leaves.
ingest_documents(pdf_paths, dir, coll) ==
    LET api == "ingest_documents"
        missing == {i \in DOMAIN pdf_paths : ~path_exists(pdf_paths[i])}
        first == CHOOSE i \in missing : \A j \in missing : i <= j
        all_chunks == Concat([i \in DOMAIN pdf_paths |-> Processed[pdf_paths[i]]])
    IN  IF missing # {}
        THEN [resp |-> Http(api, 404, "File not found", pdf_paths[first], Ret("none")),
              store |-> Persisted(dir, coll)]
        ELSE IF NoChunks(all_chunks)
        THEN [resp |-> Http(api, 400, "No text extracted from provided documents.", "",
                            Ret("none")),
              store |-> Persisted(dir, coll)]
        ELSE [resp |-> Http(api, 200, "Successfully ingested documents and updated vector store.",
                            "", Ret("create_vector_store")),
              store |-> create_vector_store(all_chunks, dir, coll)]

\* os.path.join(upload_dir, file.filename)
TempPath(filename) ==
    CASE filename = "upload.pdf" -> "uploaded_temp_files/upload.pdf"
      [] OTHER                   -> "uploaded_temp_files/empty.pdf"

\* summarize_document(file, pdf_path): POST /summarize-document.  The whole
\* body is inside try/except Exception, so every HTTPException it raises is
\* caught and raised again as a 500.
summarize_document(file, pdf_path, provider, key, llmOK) ==
    LET api == "summarize_document"
        detail == "An error occurred during summarization"
        document_path == IF file # None THEN TempPath(file) ELSE pdf_path
        exists == file # None \/ path_exists(pdf_path)
        chunks == Processed[document_path]
        summary == summarize_document_chunks(chunks, provider, key, llmOK)
    IN  IF file = None /\ pdf_path = None
        THEN Http(api, 500, detail,
                  "Either a file must be uploaded or a PDF path must be provided.", Ret("none"))
        ELSE IF ~exists THEN Http(api, 500, detail, "File not found", Ret("none"))
        ELSE IF chunks = <<>>
        THEN Http(api, 500, detail, "No text extracted from the document for summarization.",
                  Ret("none"))
        ELSE IF summary.exc # "none" THEN Http(api, 500, detail, summary.err, summary)
        ELSE Http(api, 200, "", "", summary)

\* extract_entities(request): POST /extract-entities
extract_entities(pdf_path, provider, key, nlpLoaded, llmOK, llmData) ==
    LET api == "extract_entities"
        detail == "An error occurred during entity extraction"
        full_text == Processed[pdf_path]
        joined_text == Concat(full_text)
        extracted_info ==
            extract_entities_from_text(joined_text, provider, key, nlpLoaded, llmOK, llmData)
    IN  IF ~path_exists(pdf_path)
        THEN Http(api, 404, "File not found", pdf_path, Ret("none"))
        ELSE IF full_text = <<>>
        THEN Http(api, 500, detail,
                  "No text extracted from the document for entity extraction.", Ret("none"))
        ELSE IF Unbound("extract_entities_from_text")
        THEN Http(api, 500, detail, NameErrorOf("extract_entities_from_text"), Ret("none"))
        ELSE IF extracted_info.exc # "none"
        THEN Http(api, 500, detail, extracted_info.err, extracted_info)
        ELSE Http(api, 200, "", "", extracted_info)

\* compare_documents_api(request): POST /compare-documents
compare_documents_api(pdf_path1, pdf_path2, provider, key, llmOK) ==
    LET api == "compare_documents_api"
        detail == "An error occurred during document comparison"
        chunks1 == Processed[pdf_path1]
        chunks2 == Processed[pdf_path2]
        comparison_result == compare_documents(chunks1, chunks2, provider, key, llmOK)
    IN  IF ~path_exists(pdf_path1)
        THEN Http(api, 404, "File not found", pdf_path1, Ret("none"))
        ELSE IF ~path_exists(pdf_path2)
        THEN Http(api, 404, "File not found", pdf_path2, Ret("none"))
        ELSE IF chunks1 = <<>> \/ chunks2 = <<>>
        THEN Http(api, 500, detail,
                  "Could not extract text from one or both documents for comparison.",
                  Ret("none"))
        ELSE IF Unbound("compare_documents")
        THEN Http(api, 500, detail, NameErrorOf("compare_documents"), Ret("none"))
        ELSE IF comparison_result.exc # "none"
        THEN Http(api, 500, detail, comparison_result.err, comparison_result)
        ELSE Http(api, 200, "", "", comparison_result)

\* extract_citations(request): POST /extract-citations
extract_citations(pdf_path) ==
    LET api == "extract_citations"
        detail == "An error occurred during citation extraction"
        full_text_chunks == Processed[pdf_path]
        joined_text == Concat(full_text_chunks)
        citations == extract_citations_from_text(joined_text)
    IN  IF ~path_exists(pdf_path)
        THEN Http(api, 404, "File not found", pdf_path, Ret("none"))
        ELSE IF full_text_chunks = <<>>
        THEN Http(api, 500, detail,
                  "No text extracted from the document for citation extraction.", Ret("none"))
        ELSE IF Unbound("extract_citations_from_text")
        THEN Http(api, 500, detail, NameErrorOf("extract_citations_from_text"), Ret("none"))
        ELSE IF citations.exc # "none" THEN Http(api, 500, detail, citations.err, citations)
        ELSE Http(api, 200, "", "", citations)

----------------------------------------------------------------------------
(* The state machine *)

\* Values of the LLM_PROVIDER environment variable ("dummy" when unset).
ProviderNames == {"dummy", "openai", "ollama", "", "OpenAI"}
\* Values of the OPENAI_API_KEY environment variable (None when unset).
ApiKeys == {None, "", "sk-test"}

\* The pdf_paths lists of the ingest requests.
IngestRequests ==
    { <<>>, <<"a.pdf", "b.pdf">>, <<"b.pdf", "blank.pdf">>, <<"scan.pdf", "blank.pdf">>,
      <<"a.pdf", "missing.pdf">>, <<"missing.pdf", "b.pdf">> }

\* The (file, pdf_path) pairs of the summarize requests.
SummarizeRequests ==
    { <<None, None>>, <<None, "a.pdf">>, <<None, "blank.pdf">>, <<None, "missing.pdf">>,
      <<"upload.pdf", "missing.pdf">> }

\* The (pdf_path1, pdf_path2) pairs of the compare requests.
CompareRequests ==
    { <<"a.pdf", "b.pdf">>, <<"missing.pdf", "a.pdf">>, <<"b.pdf", "missing.pdf">>,
      <<"b.pdf", "scan.pdf">> }

\* The pdf_path values of the extract-entities requests.
ExtractRequests == {"b.pdf", "blank.pdf", "missing.pdf"}

\* What the extraction chain does on a call: it fails (ok = FALSE), or returns data.
ChainOutcomes ==
    {[ok |-> FALSE, data |-> <<>>]} \cup {[ok |-> TRUE, data |-> d] : d \in LlmExtractions}

\* The environment of one operation: chainOK, whether RetrievalQA accepts a
\* DummyLLM as its llm; llmOK, whether the calls of the hosted / local model
\* (the extraction chain included) succeed; data, what the extraction chain
\* returned.
Env(chainOK, llmOK) == [chainOK |-> chainOK, llmOK |-> llmOK, data |-> <<>>]

\* A process that is not inside ingest_documents / process_query.
IdleIngest == [pc |-> "idle", pdf_paths |-> <<>>, pending |-> <<>>]
IdleQuery == [pc |-> "idle", question |-> <<>>, db |-> [kind |-> "None", docs |-> <<>>]]
Workers == <<ingest_worker, query_worker>>

\* The process after its modules are imported: config.py has read the
\* environment and created CHROMA_DB_DIR (config.py:42); nothing is ingested.
\* The service runs with the chunk size and overlap CHUNK_SIZE, CHUNK_OVERLAP.
Init ==
    /\ LLM_PROVIDER \in ProviderNames
    /\ OPENAI_API_KEY \in ApiKeys
    /\ nlp \in BOOLEAN
    /\ chunk_size = CHUNK_SIZE
    /\ chunk_overlap = CHUNK_OVERLAP
    /\ phase = "serving"
    /\ dirExists = TRUE
    /\ collection = <<>>
    /\ builds = 0
    /\ lastBuild = <<>>
    /\ prev = Persisted(TRUE, <<>>)
    /\ ingest_worker = IdleIngest
    /\ query_worker = IdleQuery
    /\ args = <<>>
    /\ env = Env(TRUE, TRUE)
    /\ out = Direct(Ret("none"))

Config == <<LLM_PROVIDER, OPENAI_API_KEY, nlp, chunk_size, chunk_overlap, phase>>

\* An operation called with arguments a that leaves the persisted index alone
\* and answers resp, the environment having behaved as e.
Answer(resp, a, e) ==
    /\ out' = resp
    /\ args' = a
    /\ env' = e
    /\ prev' = Persisted(dirExists, collection)
    /\ UNCHANGED <<Config, Workers, dirExists, collection, builds, lastBuild>>

ProcessQuery ==
    \E q \in Questions, chainOK \in BOOLEAN, llmOK \in BOOLEAN :
        Answer(process_query(q, dirExists, collection, LLM_PROVIDER, OPENAI_API_KEY,
                             chainOK, llmOK),
               q, Env(chainOK, llmOK))

IngestDocuments ==
    \E pdf_paths \in IngestRequests :
        LET r == ingest_documents(pdf_paths, dirExists, collection)
        IN  /\ builds < MaxBuilds
            /\ out' = r.resp
            /\ args' = pdf_paths
            /\ env' = Env(TRUE, TRUE)
            /\ prev' = Persisted(dirExists, collection)
            /\ dirExists' = r.store.dir
            /\ collection' = r.store.coll
            /\ builds' = IF r.resp.status = 200 THEN builds + 1 ELSE builds
            /\ lastBuild' = IF r.resp.status = 200
                            THEN Concat([i \in DOMAIN pdf_paths |-> Processed[pdf_paths[i]]])
                            ELSE lastBuild
            /\ UNCHANGED <<Config, Workers>>

SummarizeDocument ==
    \E req \in SummarizeRequests, llmOK \in BOOLEAN :
        Answer(summarize_document(req[1], req[2], LLM_PROVIDER, OPENAI_API_KEY, llmOK),
               req, Env(TRUE, llmOK))

ExtractEntities ==
    \E pdf_path \in ExtractRequests, chain \in ChainOutcomes :
        Answer(extract_entities(pdf_path, LLM_PROVIDER, OPENAI_API_KEY, nlp, chain.ok, chain.data),
               pdf_path, [Env(TRUE, chain.ok) EXCEPT !.data = chain.data])

CompareDocumentsApi ==
    \E req \in CompareRequests, llmOK \in BOOLEAN :
        Answer(compare_documents_api(req[1], req[2], LLM_PROVIDER, OPENAI_API_KEY, llmOK),
               req, Env(TRUE, llmOK))

\* The texts handed to the rag_pipeline functions when they are called directly.
Texts == {Concat(Processed["b.pdf"]), <<"no", "names", "here">>}
ChunkLists == {Processed[p] : p \in {"a.pdf", "b.pdf"}}

\* get_llm() called on its own
CallGetLlm ==
    LET llm == get_llm(LLM_PROVIDER, OPENAI_API_KEY)
    IN  Answer(Direct([Ret("get_llm") EXCEPT !.exc = llm.exc, !.err = llm.err,
                                            !.type = llm.kind, !.llm = llm.kind]),
               <<>>, Env(TRUE, TRUE))

\* load_vector_store() called on its own
CallLoadVectorStore ==
    LET db == load_vector_store(dirExists, collection)
    IN  Answer(Direct([Ret("load_vector_store") EXCEPT !.type = db.kind, !.sources = db.docs]),
               <<>>, Env(TRUE, TRUE))

\* extract_entities_from_text(text) called on its own
CallExtractEntitiesFromText ==
    \E text \in Texts, chain \in ChainOutcomes :
        Answer(Direct(extract_entities_from_text(text, LLM_PROVIDER, OPENAI_API_KEY, nlp,
                                                 chain.ok, chain.data)),
               text, [Env(TRUE, chain.ok) EXCEPT !.data = chain.data])

\* compare_documents(doc1_chunks, doc2_chunks) called on its own
CallCompareDocuments ==
    \E c1 \in ChunkLists, llmOK \in BOOLEAN :
        LET c2 == Processed["b.pdf"]
        IN  Answer(Direct(compare_documents(c1, c2, LLM_PROVIDER, OPENAI_API_KEY, llmOK)),
                   <<c1, c2>>, Env(TRUE, llmOK))

\* The texts searched for when the store is queried directly: the passages of
\* the documents.
SearchTexts ==
    LET passages == Processed["a.pdf"] \o Processed["b.pdf"]
    IN  {passages[i] : i \in DOMAIN passages}

\* loaded_db = load_vector_store(); loaded_db.similarity_search(query, k=1)
\* (vector_store.py:93-97)
CallSimilaritySearch ==
    \E query \in SearchTexts :
        LET loaded_db == load_vector_store(dirExists, collection)
        IN  Answer(Direct([Ret("similarity_search") EXCEPT
                               !.type = "list",
                               !.sources = similarity_search(loaded_db, query, 1)]),
                   query, Env(TRUE, TRUE))

\* The pdf_path values of the extract-citations requests.
CitationRequests == {"a.pdf", "scan.pdf", "missing.pdf"}

ExtractCitations ==
    \E pdf_path \in CitationRequests :
        Answer(extract_citations(pdf_path), pdf_path, Env(TRUE, TRUE))

\* The texts handed to extract_citations_from_text when it is called directly.
CitationTexts ==
    { <<"Section", "302", "of", "the", "Indian", "Penal", "Code,", "1860">>,
      <<"see", "Article", "21", "and", "article", "21", "again">>,
      <<"no", "names", "here">> }

\* extract_citations_from_text(text) called on its own
CallExtractCitationsFromText ==
    \E text \in CitationTexts :
        Answer(Direct(extract_citations_from_text(text)), text, Env(TRUE, TRUE))

Next ==
    \/ ProcessQuery
    \/ IngestDocuments
    \/ SummarizeDocument
    \/ ExtractEntities
    \/ CompareDocumentsApi
    \/ CallGetLlm
    \/ CallLoadVectorStore
    \/ CallExtractEntitiesFromText
    \/ CallCompareDocuments
    \/ ExtractCitations
    \/ CallExtractCitationsFromText
    \/ CallSimilaritySearch

Spec == Init /\ [][Next]_vars

----------------------------------------------------------------------------
(* The document pipeline under every chunk configuration *)

\* Values of the CHUNK_SIZE and CHUNK_OVERLAP environment variables, in
\* characters: overlaps below, equal to and above the chunk sizes.
ChunkSizes == {12, 40}
ChunkOverlaps == {0, 10, 12, 40, 50}

\* What extract_text_from_pdf can return: nothing, whitespace only, texts
\* shorter than the chunk sizes and texts longer than them.
RawTexts ==
    { <<>>,
      <<" ">>,
      <<"\n", "  ">>,
      <<"Rent">>,
      <<" ", "Rent", "\n", "due">>,
      <<"  ", "Rent", "\n\n", "due", "  ", "in", " ", "May", "\n">>,
      extract_text_from_pdf("b.pdf"),
      extract_text_from_pdf("a.pdf") }

\* The process before config.py has run: the environment holds the chunk
\* configuration, and CHROMA_DB_DIR is not made yet.
DocInit ==
    /\ LLM_PROVIDER = "dummy"
    /\ OPENAI_API_KEY = None
    /\ nlp = TRUE
    /\ chunk_size \in ChunkSizes
    /\ chunk_overlap \in ChunkOverlaps
    /\ phase = "import"
    /\ dirExists = FALSE
    /\ collection = <<>>
    /\ builds = 0
    /\ lastBuild = <<>>
    /\ prev = Persisted(FALSE, <<>>)
    /\ ingest_worker = IdleIngest
    /\ query_worker = IdleQuery
    /\ args = <<>>
    /\ env = Env(TRUE, TRUE)
    /\ out = Direct(Ret("none"))

\* import config (config.py:26-27, 42): CHUNK_SIZE and CHUNK_OVERLAP are
\* converted with int() and not compared; the directories are made.
ImportConfig ==
    /\ phase = "import"
    /\ phase' = "serving"
    /\ dirExists' = TRUE
    /\ prev' = Persisted(dirExists, collection)
    /\ UNCHANGED <<LLM_PROVIDER, OPENAI_API_KEY, nlp, chunk_size, chunk_overlap, collection,
                   builds, lastBuild, Workers, args, env, out>>

\* clean_text(text) called on its own
CallCleanText ==
    \E raw \in RawTexts :
        /\ phase = "serving"
        /\ Answer(Direct([Ret("clean_text") EXCEPT !.type = "str", !.text = clean_text(raw)]),
                  raw, Env(TRUE, TRUE))

\* chunk_text(text) called on a cleaned text
CallChunkText ==
    \E raw \in RawTexts :
        /\ phase = "serving"
        /\ Answer(Direct(chunk_text_with(clean_text(raw), chunk_size, chunk_overlap)),
                  clean_text(raw), Env(TRUE, TRUE))

\* process_document(pdf_path) called on a file whose extracted text is raw
CallProcessDocument ==
    \E raw \in RawTexts :
        /\ phase = "serving"
        /\ Answer(Direct(process_text_with(raw, chunk_size, chunk_overlap)),
                  raw, Env(TRUE, TRUE))

DocNext ==
    \/ ImportConfig
    \/ CallCleanText
    \/ CallChunkText
    \/ CallProcessDocument

DocSpec == DocInit /\ [][DocNext]_vars

----------------------------------------------------------------------------
(* Ingest and query in two processes on the same CHROMA_DB_DIR *)

\* The handlers of one server process never await, so one event loop runs them
\* one at a time.  Two processes (two workers of the service, or the service
\* and the vector_store.py script) share only the directory: the store is
\* written record by record and nothing orders a reader against the writer,
\* so a reader that opens the store finds the records written so far.

\* The pdf_paths lists of the ingest requests of the writing process.
RaceIngestRequests == { <<"a.pdf", "b.pdf">>, <<"b.pdf">>, <<"a.pdf", "missing.pdf">> }

RaceInit ==
    /\ LLM_PROVIDER \in {"dummy", "ollama"}
    /\ OPENAI_API_KEY = None
    /\ nlp = TRUE
    /\ chunk_size = CHUNK_SIZE
    /\ chunk_overlap = CHUNK_OVERLAP
    /\ phase = "serving"
    /\ dirExists = TRUE
    /\ collection = <<>>
    /\ builds = 0
    /\ lastBuild = <<>>
    /\ prev = Persisted(TRUE, <<>>)
    /\ ingest_worker = IdleIngest
    /\ query_worker = IdleQuery
    /\ args = <<>>
    /\ env = Env(TRUE, TRUE)
    /\ out = Direct(Ret("none"))

\* A load while another process writes the store, made exclusive by a lock.
LoadAllowed_exclusive(writer_pc) == writer_pc = "idle"

\* What load_vector_store waits for before it opens the directory: nothing
\* (vector_store.py:37-46 takes no lock and checks only that the directory exists).
LoadAllowed(writer_pc) == TRUE

\* ingest_documents up to its call of create_vector_store (api.py:105-119): a
\* request with a missing path or without passages is answered at once
IngestCheck ==
    \E pdf_paths \in RaceIngestRequests :
        LET r == ingest_documents(pdf_paths, dirExists, collection)
            all_chunks == Concat([i \in DOMAIN pdf_paths |-> Processed[pdf_paths[i]]])
        IN  /\ ingest_worker.pc = "idle"
            /\ builds < MaxBuilds
            /\ prev' = Persisted(dirExists, collection)
            /\ IF r.resp.status # 200
               THEN /\ out' = r.resp
                    /\ args' = pdf_paths
                    /\ UNCHANGED <<ingest_worker, lastBuild>>
               ELSE /\ ingest_worker' = [pc |-> "writing", pdf_paths |-> pdf_paths,
                                         pending |-> all_chunks]
                    /\ lastBuild' = all_chunks
                    /\ UNCHANGED <<out, args>>
            /\ UNCHANGED <<Config, query_worker, dirExists, collection, builds, env>>

\* Chroma.from_texts / db.persist (vector_store.py:24-29): one more record of
\* the build reaches the directory
WriteRecord ==
    /\ ingest_worker.pc = "writing"
    /\ ingest_worker.pending # <<>>
    /\ collection' = Append(collection, Head(ingest_worker.pending))
    /\ ingest_worker' = [ingest_worker EXCEPT !.pending = Tail(@)]
    /\ UNCHANGED <<Config, query_worker, dirExists, builds, lastBuild, prev, args, env, out>>

\* create_vector_store returns and ingest_documents answers (api.py:120)
IngestRespond ==
    /\ ingest_worker.pc = "writing"
    /\ ingest_worker.pending = <<>>
    /\ out' = ingest_documents(ingest_worker.pdf_paths, dirExists, prev.coll).resp
    /\ args' = ingest_worker.pdf_paths
    /\ builds' = builds + 1
    /\ ingest_worker' = IdleIngest
    /\ UNCHANGED <<Config, query_worker, dirExists, collection, lastBuild, prev, env>>

\* process_query up to the return of load_vector_store (rag_pipeline.py:59):
\* the handle is over what the directory holds at that moment
QueryLoad ==
    \E q \in Questions :
        /\ query_worker.pc = "idle"
        /\ LoadAllowed(ingest_worker.pc)
        /\ query_worker' = [pc |-> "loaded", question |-> q,
                            db |-> load_vector_store(dirExists, collection)]
        /\ UNCHANGED <<Config, ingest_worker, dirExists, collection, builds, lastBuild, prev,
                       args, env, out>>

\* The rest of process_query: retrieval from the loaded handle, the model
\* call and the response
QueryAnswer ==
    \E chainOK \in BOOLEAN :
        /\ query_worker.pc = "loaded"
        /\ out' = process_query(query_worker.question, query_worker.db.kind # "None",
                                query_worker.db.docs, LLM_PROVIDER, OPENAI_API_KEY,
                                chainOK, TRUE)
        /\ args' = query_worker.question
        /\ env' = Env(chainOK, TRUE)
        /\ query_worker' = IdleQuery
        /\ UNCHANGED <<Config, ingest_worker, dirExists, collection, builds, lastBuild, prev>>

RaceNext ==
    \/ IngestCheck
    \/ WriteRecord
    \/ IngestRespond
    \/ QueryLoad
    \/ QueryAnswer

RaceSpec == RaceInit /\ [][RaceNext]_vars

----------------------------------------------------------------------------
(* Properties *)

\* The rag_pipeline functions that construct a language model provider.
ModelFunctions ==
    {"query_rag_pipeline", "summarize_document_chunks", "extract_entities_from_text",
     "compare_documents"}

\* The configuration selects the Offline provider.
Offline == LLM_PROVIDER \notin {"openai", "ollama"}
\* The configuration selects the Hosted provider without a credential.
HostedNoKey == LLM_PROVIDER = "openai" /\ Falsy(OPENAI_API_KEY)
\* The configuration selects a Hosted or Local-server provider that can be constructed.
RealProvider == LLM_PROVIDER = "ollama" \/ (LLM_PROVIDER = "openai" /\ ~Falsy(OPENAI_API_KEY))

\* The passages of a list of texts, as a set.
ToSet(seq) == {seq[i] : i \in DOMAIN seq}
\* All the passages of the files an ingest request names.
PassagesOf(pdf_paths) == Concat([i \in DOMAIN pdf_paths |-> Processed[pdf_paths[i]]])

\* The reasons in the source that name the missing index.
NoIndexReasons ==
    {"Vector store not found. Please create it first by running document ingestion.",
     "ChromaDB directory not found. Please create the vector store first."}

\* C1: a query answered before any ingest is reported to the caller as a
\* failure whose reason names the missing index; it is neither an answer nor
\* a generic internal error.
C1_NoIndexReported ==
    (out.api = "process_query" /\ builds = 0)
        => (out.status # 200 /\ out.cause \in NoIndexReasons)

\* C2: load_vector_store returns the NotFound signal (None) whenever no build
\* has been performed on the storage location.
C2_LoadNotFoundBeforeBuild ==
    (out.ret.fn = "load_vector_store" /\ builds = 0) => out.ret.type = "None"

\* C3: after any sequence of builds the persisted index holds exactly the
\* passages of the most recent build.
C3_WholeReplace == builds > 0 => collection = lastBuild

C5_SelectionTotal ==
    (out.ret.fn = "get_llm" /\ LLM_PROVIDER \notin {"openai", "ollama"})
        => (out.ret.exc = "none" /\ out.ret.llm = "DummyLLM")

\* C5 witness: get_llm returned the DummyLLM for an unrecognised name.
C5_Witness ==
    /\ out.ret.fn = "get_llm"
    /\ LLM_PROVIDER = "OpenAI"
    /\ out.ret.llm = "DummyLLM"

\* C6: with the Hosted provider selected and the credential missing or empty,
\* get_llm and every operation that constructs a provider raises the
\* configuration error; no provider handle is returned and no model is called.
C6_HostedFailsFast ==
    (HostedNoKey /\ out.ret.fn \in ModelFunctions \cup {"get_llm"})
        => /\ out.ret.exc = "ValueError"
           /\ out.ret.err = MissingKeyError
           /\ out.ret.llm = "none"
           /\ out.ret.calls = 0

\* C6 witness: summarization failed with the configuration error under an
\* empty credential.
C6_Witness ==
    /\ out.ret.fn = "summarize_document_chunks"
    /\ LLM_PROVIDER = "openai"
    /\ OPENAI_API_KEY = ""
    /\ out.ret.exc = "ValueError"

\* The result says that it is simulated or comes from a dummy model.
MarkedSimulated(r) ==
    \/ In(<<"simulated">>, Lower(r.message \o r.text))
    \/ In(<<"dummy", "llm">>, Lower(r.message \o r.text))

\* C7: with the Offline provider every operation that returns model output
\* (answerQuestion, summarize, extractEntities, compareDocuments) labels it
\* as simulated.
C7_OfflineOutputLabelled ==
    (Offline /\ out.ret.fn \in ModelFunctions /\ out.ret.exc = "none")
        => MarkedSimulated(out.ret)

\* C8: with the Offline provider summarize, extractEntities and
\* compareDocuments return a result marked simulated and call the model zero
\* times.
C8_OfflineSimulated ==
    (Offline /\ out.ret.fn \in ModelFunctions \ {"query_rag_pipeline"})
        => /\ out.ret.exc = "none"
           /\ In(<<"simulated">>, Lower(out.ret.message \o out.ret.text))
           /\ out.ret.calls = 0

\* C8 witness: compare_documents returned its simulated result under an
\* unrecognised provider name.
C8_Witness ==
    /\ out.ret.fn = "compare_documents"
    /\ LLM_PROVIDER = ""
    /\ out.ret.message = SimulatedComparison

\* C9: after a multi-file ingest that reports success the index holds exactly
\* the passages of the request's files.
C9_IngestIndexIsUnion ==
    (out.api = "ingest_documents" /\ out.status = 200)
        => ToSet(collection) = ToSet(PassagesOf(args))

\* C10: extractEntities with a constructed non-Offline provider whose
\* schema-guided call fails returns a result object carrying an error string
\* next to the recognizer's output, from the endpoint (for a document with
\* text) as from the function.
C10_ExtractEntitiesPartial ==
    LET endpoint == out.api = "extract_entities" /\ Processed[args] # <<>>
        direct == out.api = "none" /\ out.ret.fn = "extract_entities_from_text"
    IN  (RealProvider /\ ~env.llmOK /\ (endpoint \/ direct))
            => /\ out.status \in {0, 200}
               /\ out.ret.exc = "none"
               /\ out.ret.type = "dict"
               /\ "llm_extraction_error" \in DOMAIN out.ret.entities

\* C11: extract_citations_from_text returns without error, for every text and
\* every provider configuration, the deduplicated set of the citations matched
\* in the text, each with its whitespace normalised.
C11_CitationsReturned ==
    out.ret.fn = "extract_citations_from_text"
        => /\ out.ret.exc = "none"
           /\ out.ret.type = "list"
           /\ out.ret.citations = ToSet(FindAllSections(args, 1))

\* C12: a configuration whose chunk overlap is greater than or equal to the
\* chunk size is rejected when the configuration is loaded: the process never
\* gets to serve with it, and no chunk call is the first to detect it.
C12_BadOverlapRejectedAtLoad ==
    (chunk_overlap >= chunk_size)
        => /\ phase # "serving"
           /\ ~(out.ret.fn \in {"chunk_text", "process_document"} /\ out.ret.exc = "ValueError")

RECURSIVE TextLen(_)
\* len(text) of a text given as its tokens
TextLen(text) == IF text = <<>> THEN 0 ELSE Len(Head(text)) + TextLen(Tail(text))

\* The words of a text: its tokens that are not whitespace.
Words(text) == SelectSeq(text, LAMBDA t : t \notin Whitespace)

RECURSIVE SingleSpaced(_)
\* The words joined by single spaces.
SingleSpaced(words) ==
    IF Len(words) <= 1 THEN words
    ELSE <<Head(words), " ">> \o SingleSpaced(Tail(words))

\* C15: under a chunk configuration the splitter accepts, clean_text gives the
\* words of the text separated by single spaces with no space at either end;
\* process_document and chunk_text give, for a text shorter than the chunk
\* size, exactly one chunk holding that normalized text (all its words, in
\* order), and for an empty or whitespace-only text the empty list; neither
\* raises.
C15_ShortTextOneChunk ==
    (phase = "serving" /\ ~SplitterRefuses(chunk_size, chunk_overlap))
        => /\ out.ret.fn = "clean_text" => out.ret.text = SingleSpaced(Words(args))
           /\ out.ret.fn \in {"chunk_text", "process_document"}
                 => /\ out.ret.exc = "none"
                    /\ Words(args) = <<>> => out.ret.sources = <<>>
                    /\ (Words(args) # <<>> /\ TextLen(args) < chunk_size)
                          => out.ret.sources = <<Words(args)>>

\* C15 witness: process_document gave one chunk for a short text with leading
\* whitespace and a line break, with the overlap equal to the chunk size.
C15_Witness ==
    /\ out.ret.fn = "process_document"
    /\ args = <<" ", "Rent", "\n", "due">>
    /\ chunk_size = 12
    /\ chunk_overlap = 12
    /\ out.ret.sources = << <<"Rent", "due">> >>

\* The last request named a document that does not exist or has no
\* extractable text, or named neither a file nor a path.
InputError ==
    CASE out.api = "ingest_documents" ->
           (\E i \in DOMAIN args : ~path_exists(args[i])) \/ PassagesOf(args) = <<>>
      [] out.api = "summarize_document" ->
           IF args[1] # None THEN Processed[TempPath(args[1])] = <<>>
           ELSE args[2] = None \/ ~path_exists(args[2]) \/ Processed[args[2]] = <<>>
      [] out.api \in {"extract_entities", "extract_citations"} ->
           ~path_exists(args) \/ Processed[args] = <<>>
      [] out.api = "compare_documents_api" ->
           \E i \in 1..2 : ~path_exists(args[i]) \/ Processed[args[i]] = <<>>
      [] OTHER -> FALSE

\* C13: in every endpoint a missing document, a document without extractable
\* text and a request with neither file nor path are answered with a client
\* error (4xx), never with an internal error (5xx).
C13_InputErrorsAre4xx == InputError => out.status \in 400..499

\* C14: when the call of a hosted or local-server model fails, query_rag_pipeline,
\* summarize_document_chunks and compare_documents fail (they raise, so that the
\* caller gets a failed operation and no result), having called the model once.
C14_ModelFailureSurfaced ==
    (RealProvider /\ ~env.llmOK
       /\ out.ret.fn \in {"query_rag_pipeline", "summarize_document_chunks", "compare_documents"})
        => /\ out.ret.exc # "none"
           /\ out.status # 200
           /\ out.ret.calls <= 1

\* C16: after a build and a load, the similarity search with k = 1 for the
\* text of a passage of that build returns exactly that passage, whatever was
\* built on the location before.
C16_SelfRetrieval ==
    (out.ret.fn = "similarity_search" /\ builds > 0 /\ args \in ToSet(lastBuild))
        => out.ret.sources = <<args>>

\* C16 witness: after two builds, with the passages of the first build still
\* in the store ahead of those of the second, the search for the passage of
\* the second build returned it.
C16_Witness ==
    /\ out.ret.fn = "similarity_search"
    /\ builds = 2
    /\ lastBuild = Processed["b.pdf"]
    /\ Len(collection) > Len(lastBuild)
    /\ collection[1] # args
    /\ args \in ToSet(lastBuild)
    /\ out.ret.sources = <<args>>

\* C17: ingest and query are not mutually excluded: whenever a process is
\* writing the store, an idle process can start a query and load the store.
\* The witness is the interleaving in which the query then holds an index that
\* is neither the one before the ingest nor the one after it.
C17_NotMutuallyExcluded ==
    (ingest_worker.pc = "writing" /\ query_worker.pc = "idle") => ENABLED QueryLoad

\* C17 witness: a query loaded the store while the ingest of a.pdf and b.pdf
\* was writing it, and holds some but not all of the new passages.
C17_Witness ==
    /\ ingest_worker.pc = "writing"
    /\ query_worker.pc = "loaded"
    /\ query_worker.db.docs # prev.coll
    /\ query_worker.db.docs # prev.coll \o lastBuild
    /\ Len(query_worker.db.docs) > Len(prev.coll)

\* The recognizer's categorized lists for a text.
RecognizerLists(text) ==
    [persons       |-> Ents(text, "PERSON"),
     organizations |-> Ents(text, "ORG"),
     dates         |-> Ents(text, "DATE"),
     gpes          |-> Ents(text, "GPE")]

\* C18: whenever the recognizer is loaded, extract_entities_from_text returns
\* a mapping that holds the recognizer's four lists for the text, under every
\* provider configuration and whatever the schema-guided call does.
C18_RecognizerListsReturned ==
    (nlp /\ out.api = "none" /\ out.ret.fn = "extract_entities_from_text")
        => /\ out.ret.exc = "none"
           /\ \A k \in DOMAIN RecognizerLists(args) :
                  /\ k \in DOMAIN out.ret.entities
                  /\ out.ret.entities[k] = RecognizerLists(args)[k]

\* C19: when the schema-guided call succeeds, every key of the model's output
\* is in the returned mapping with the model's value, also when the recognizer
\* has the same key, and every key the recognizer alone has keeps its list.
C19_ModelValueWins ==
    (nlp /\ RealProvider /\ env.llmOK /\ out.api = "none"
       /\ out.ret.fn = "extract_entities_from_text")
        => /\ \A i \in DOMAIN env.data : \A j \in DOMAIN env.data[i] :
                  /\ env.data[i][j][1] \in DOMAIN out.ret.entities
                  /\ out.ret.entities[env.data[i][j][1]] = env.data[i][j][2]
           /\ \A k \in DOMAIN RecognizerLists(args) :
                  (\A i \in DOMAIN env.data : \A j \in DOMAIN env.data[i] :
                       env.data[i][j][1] # k)
                      => (k \in DOMAIN out.ret.entities
                          /\ out.ret.entities[k] = RecognizerLists(args)[k])

\* C20: an ingest request that names a path that does not exist, at whatever
\* position of the list, or whose files yield no passage, is rejected and
\* leaves the persisted index exactly as it was before the request.
C20_IngestAllOrNothing ==
    (out.api = "ingest_documents"
       /\ ((\E i \in DOMAIN args : ~path_exists(args[i])) \/ PassagesOf(args) = <<>>))
        => /\ out.status \in {400, 404}
           /\ Persisted(dirExists, collection) = prev

\* C20 witness: with an index persisted, an ingest whose missing path comes
\* after a file with passages was rejected and the index is as before.
C20_Witness ==
    /\ out.api = "ingest_documents"
    /\ args = <<"a.pdf", "missing.pdf">>
    /\ out.status = 404
    /\ prev.coll # <<>>
    /\ collection = prev.coll

\* The operations that read documents or the index and answer from them.
ReadOperations ==
    {"process_query", "summarize_document", "extract_entities", "compare_documents_api",
     "extract_citations"}
ReadFunctions ==
    {"query_rag_pipeline", "summarize_document_chunks", "extract_entities_from_text",
     "compare_documents", "extract_citations_from_text", "load_vector_store",
     "similarity_search", "get_llm"}

\* C21: only ingest modifies the persisted index.  Answering a question,
\* summarizing, extracting entities, comparing and extracting citations leave
\* the persisted index as they found it, whether they succeed or fail; and no
\* operation works with an index or provider handle of an earlier one: the
\* passages a query or a search answers from are retrieved from the index as
\* it is persisted when the operation is called, and the provider an operation
\* used is the one get_llm gives for the configuration.
C21_OnlyIngestWritesNoHandleReused ==
    /\ (out.api \in ReadOperations \/ (out.api = "none" /\ out.ret.fn \in ReadFunctions))
           => Persisted(dirExists, collection) = prev
    /\ (out.ret.fn = "query_rag_pipeline" /\ out.ret.type = "dict")
           => out.ret.sources = Retrieve([kind |-> "Chroma", docs |-> collection], args)
    /\ out.ret.fn = "load_vector_store" => out.ret.sources = collection
    /\ out.ret.fn = "similarity_search"
           => out.ret.sources = similarity_search([kind |-> "Chroma", docs |-> collection],
                                                  args, 1)
    /\ out.ret.llm # "none" => out.ret.llm = get_llm(LLM_PROVIDER, OPENAI_API_KEY).kind

\* C21 witness: after the second ingest added passages to the index, a question
\* was answered from passages of that ingest, and the index is as the question
\* found it.
C21_Witness ==
    /\ out.api = "process_query"
    /\ out.status = 200
    /\ builds = 2
    /\ Len(collection) > Len(lastBuild)
    /\ \E i \in DOMAIN out.ret.sources :
           /\ out.ret.sources[i] \in ToSet(lastBuild)
           /\ \A j \in 1..(Len(collection) - Len(lastBuild)) :
                  collection[j] # out.ret.sources[i]
    /\ collection = prev.coll

====
